---- MODULE Spec2Model ----
(***************************************************************************)
(* Model of tools/benchmark_compare/compare_profiles.py: the comparison of *)
(* two per-function cost tables (old = baseline, new = candidate).         *)
(*                                                                         *)
(* Strings that the code inspects (function names, exclude patterns) are   *)
(* sequences of one-character strings; strings that the code only produces *)
(* (formatted cells, category labels) are TLA+ strings.                    *)
(* Costs are whole milliseconds.  A percent change is the exact rational    *)
(* num/den (den > 0); on the cost values used here the floating-point      *)
(* value the code computes compares and rounds exactly like that rational. *)
(***************************************************************************)
EXTENDS Integers, Sequences, FiniteSets, TLC

(* ---------------- bounds of the model ---------------- *)
MaxFuncs == 2      \* number of distinct function names in the general inputs
MaxTop == 2        \* --top ranges over 1..MaxTop
MaxRuns == 2       \* how many times the tool is run on the same inputs

(* ---------------- function names and patterns ---------------- *)
game_main_a == <<"g", "a", "m", "e", "_", "m", "a", "i", "n", "/", "a">>
game_main_b == <<"g", "a", "m", "e", "_", "m", "a", "i", "n", "/", "b">>
runtime_a == <<"r", "u", "n", "t", "i", "m", "e", ".", "a">>
ecs_b == <<"g", "i", "t", "h", "u", "b", ".", "c", "o", "m", "/", "b", "y", "t", "e", "a", "r", "e", "n", "a", "/", "e", "c", "s", ".", "b">>

FuncNameList == <<game_main_a, game_main_b, runtime_a, ecs_b>>
FuncNames == {FuncNameList[i] : i \in 1..MaxFuncs}

\* the regular expression  n.b  ("." matches any character)
pat_n_dot_b == <<"n", ".", "b">>
ExcludeLists == {<<>>, <<pat_n_dot_b>>}

(* ---------------- generic helpers ---------------- *)
Min(a, b) == IF a < b THEN a ELSE b

\* the orders in which a Python set with the elements S can be iterated
Orders(S) ==
  {s \in [1..Cardinality(S) -> S] : \A i, j \in 1..Cardinality(S) : i # j => s[i] # s[j]}

\* x[:n] for n >= 0
Prefix(s, n) == SubSeq(s, 1, Min(n, Len(s)))

abs(x) == IF x < 0 THEN -x ELSE x

\* s.startswith(p)
startswith(s, p) == Len(s) >= Len(p) /\ SubSeq(s, 1, Len(p)) = p

\* p in s   (substring test)
contains(s, p) ==
  \E i \in 1..(Len(s) - Len(p) + 1) : SubSeq(s, i, i + Len(p) - 1) = p

RECURSIVE replace(_, _, _)
\* s.replace(old, new): every non-overlapping occurrence, left to right
replace(s, old, new) ==
  IF Len(s) < Len(old) THEN s
  ELSE IF SubSeq(s, 1, Len(old)) = old
       THEN new \o replace(SubSeq(s, Len(old) + 1, Len(s)), old, new)
       ELSE <<s[1]>> \o replace(Tail(s), old, new)

(* ---------------- re.search, for patterns of literals and "." ----------- *)
match_at(pattern, s, i) ==
  /\ i + Len(pattern) - 1 <= Len(s)
  /\ \A k \in 1..Len(pattern) : pattern[k] = "." \/ pattern[k] = s[i + k - 1]

re_search(pattern, s) == \E i \in 1..(Len(s) + 1) : match_at(pattern, s, i)

should_exclude_never(func_name, exclude_patterns) == FALSE

should_exclude(func_name, exclude_patterns) ==
  \E k \in 1..Len(exclude_patterns) : re_search(exclude_patterns[k], func_name)

(* ---------------- categorize_function ---------------- *)
categorize_function(func_name) ==
  IF startswith(func_name, <<"g", "a", "m", "e", "_", "m", "a", "i", "n", "/">>)
  THEN "YOUR_CODE"
  ELSE IF startswith(func_name, <<"r", "u", "n", "t", "i", "m", "e", ".">>)
  THEN "RUNTIME"
  ELSE IF contains(func_name, <<"e", "b", "i", "t", "e", "n">>)
          \/ contains(func_name, <<"e", "b", "i", "t", "e", "n", "u", "i">>)
  THEN "EBITEN"
  ELSE IF contains(func_name, <<"e", "c", "s">>)
  THEN "ECS"
  ELSE "OTHER"

categories == <<"YOUR_CODE", "ECS", "RUNTIME", "EBITEN", "OTHER">>

(* ---------------- formatting ---------------- *)
Pad3(n) ==
  IF n < 10 THEN "00" \o ToString(n)
  ELSE IF n < 100 THEN "0" \o ToString(n)
  ELSE ToString(n)

RECURSIVE Grouped(_)
\* the "," format of a non-negative integer
Grouped(n) ==
  IF n < 1000 THEN ToString(n)
  ELSE Grouped(n \div 1000) \o "," \o Pad3(n % 1000)

format_ms(ms) ==
  IF ms >= 1000 THEN Grouped(ms) \o "ms"
  ELSE ToString(ms) \o "ms"

\* num/den rounded to the nearest integer, ties to even (format spec .0f)
RoundHalfEven(num, den) ==
  LET q == num \div den
      r == num % den
  IN IF 2 * r < den THEN q
     ELSE IF 2 * r > den THEN q + 1
     ELSE IF q % 2 = 0 THEN q ELSE q + 1

format_change_numeric(old_val, new_val) ==
  LET num == (new_val - old_val) * 100
      den == IF old_val = 0 THEN 1 ELSE old_val
      r == RoundHalfEven(num, den)
      sign == IF num > 0 THEN "+" ELSE ""
  IN IF r = 0 /\ num < 0 THEN "-0%"
     ELSE sign \o ToString(r) \o "%"

format_change(old_val, new_val) ==
  IF old_val = 0
  THEN IF new_val = 0 THEN "0%" ELSE "+NEW"
  ELSE LET num == (new_val - old_val) * 100
           r == RoundHalfEven(num, old_val)
           sign == IF num > 0 THEN "+" ELSE ""
       IN IF r = 0 /\ num < 0 THEN "-0%"
          ELSE sign \o ToString(r) \o "%"

max_len == 55

shorten_func(name) ==
  LET n1 == replace(name, <<"g", "a", "m", "e", "_", "m", "a", "i", "n", "/">>, <<>>)
      n2 == replace(n1, <<"g", "i", "t", "h", "u", "b", ".", "c", "o", "m", "/", "h", "a", "j", "i", "m", "e", "h", "o", "s", "h", "i", "/", "e", "b", "i", "t", "e", "n", "/", "v", "2", "/">>,
                    <<"e", "b", "i", "t", "e", "n", "/">>)
      n3 == replace(n2, <<"g", "i", "t", "h", "u", "b", ".", "c", "o", "m", "/", "e", "b", "i", "t", "e", "n", "u", "i", "/", "e", "b", "i", "t", "e", "n", "u", "i", "/">>,
                    <<"e", "b", "i", "t", "e", "n", "u", "i", "/">>)
      n4 == replace(n3, <<"g", "i", "t", "h", "u", "b", ".", "c", "o", "m", "/", "b", "y", "t", "e", "a", "r", "e", "n", "a", "/", "e", "c", "s", ".">>,
                    <<"e", "c", "s", ".">>)
      n5 == replace(n4, <<"g", "i", "t", "h", "u", "b", ".", "c", "o", "m", "/", "g", "o", "l", "a", "n", "g", "/", "f", "r", "e", "e", "t", "y", "p", "e", "/">>,
                    <<"f", "r", "e", "e", "t", "y", "p", "e", "/">>)
      n6 == replace(n5, <<"g", "o", "l", "a", "n", "g", ".", "o", "r", "g", "/", "x", "/", "s", "y", "s", "/", "w", "i", "n", "d", "o", "w", "s", ".">>,
                    <<"w", "i", "n", "d", "o", "w", "s", ".">>)
  IN IF Len(n6) > max_len
     THEN SubSeq(n6, 1, max_len - 3) \o <<".", ".", ".">>
     ELSE n6

(* ---------------- list.sort(key=..., reverse=...) ---------------- *)
RECURSIVE sorted_indices(_, _, _)
\* the indices 1..n of keys in the order a stable sort puts them
sorted_indices(keys, reverse, n) ==
  IF n = 0 THEN <<>>
  ELSE LET prev == sorted_indices(keys, reverse, n - 1)
           stays(j) == IF reverse THEN keys[j] >= keys[n] ELSE keys[j] <= keys[n]
           k == Cardinality({i \in 1..Len(prev) : stays(prev[i])})
       IN SubSeq(prev, 1, k) \o <<n>> \o SubSeq(prev, k + 1, Len(prev))

list_sort_ascending(seq, keys, reverse) ==
  LET idx == sorted_indices(keys, FALSE, Len(seq))
  IN [i \in 1..Len(seq) |-> seq[idx[i]]]

list_sort(seq, keys, reverse) ==
  LET idx == sorted_indices(keys, reverse, Len(seq))
  IN [i \in 1..Len(seq) |-> seq[idx[i]]]

(* ---------------- the Diff Engine: per-function comparison -------------- *)
\* a percent change, as the rational num/den
pct_change(delta, old_val, new_val) ==
  IF old_val > 0 THEN [num |-> delta * 100, den |-> old_val]
  ELSE IF new_val > 0 THEN [num |-> 100, den |-> 1]
  ELSE [num |-> 0, den |-> 1]

\* pct > t  and  pct < t  for a rational pct with a positive denominator
pct_gt(pct, t) == pct.num > t * pct.den
pct_lt(pct, t) == pct.num < t * pct.den

make_entry(name, old_pair, new_pair) ==
  LET old_flat == old_pair[1]
      old_cum == old_pair[2]
      new_flat == new_pair[1]
      new_cum == new_pair[2]
      flat_delta == new_flat - old_flat
      cum_delta == new_cum - old_cum
  IN [name |-> name, category |-> categorize_function(name),
      old_flat |-> old_flat, new_flat |-> new_flat,
      flat_delta |-> flat_delta,
      flat_pct |-> pct_change(flat_delta, old_flat, new_flat),
      old_cum |-> old_cum, new_cum |-> new_cum,
      cum_delta |-> cum_delta,
      cum_pct |-> pct_change(cum_delta, old_cum, new_cum)]

is_regression_no_floor(e, threshold, min_delta) ==
  \/ pct_gt(e.cum_pct, threshold) /\ abs(e.cum_delta) > min_delta
  \/ pct_gt(e.flat_pct, threshold)

is_regression(e, threshold, min_delta) ==
  \/ pct_gt(e.cum_pct, threshold) /\ abs(e.cum_delta) > min_delta
  \/ pct_gt(e.flat_pct, threshold) /\ abs(e.flat_delta) > min_delta

is_improvement_wrong_sign(e, threshold, min_delta) ==
  \/ pct_lt(e.cum_pct, threshold) /\ abs(e.cum_delta) > min_delta
  \/ pct_lt(e.flat_pct, threshold) /\ abs(e.flat_delta) > min_delta

is_improvement(e, threshold, min_delta) ==
  \/ pct_lt(e.cum_pct, -threshold) /\ abs(e.cum_delta) > min_delta
  \/ pct_lt(e.flat_pct, -threshold) /\ abs(e.flat_delta) > min_delta

\* one pass of the classification branch, with the two checks not chained
classify_unchained(lists, e, threshold, min_delta) ==
  LET r == IF is_regression(e, threshold, min_delta)
           THEN [lists EXCEPT !.regressions = Append(@, e)] ELSE lists
  IN IF is_improvement(e, threshold, min_delta)
     THEN [r EXCEPT !.improvements = Append(@, e)]
     ELSE [r EXCEPT !.stable = Append(@, e)]

\* one pass of the classification branch, improvement checked first
classify_improvement_first(lists, e, threshold, min_delta) ==
  IF is_improvement(e, threshold, min_delta)
  THEN [lists EXCEPT !.improvements = Append(@, e)]
  ELSE IF is_regression(e, threshold, min_delta)
  THEN [lists EXCEPT !.regressions = Append(@, e)]
  ELSE [lists EXCEPT !.stable = Append(@, e)]

\* if is_regression: ... elif is_improvement: ... else: ...
classify(lists, e, threshold, min_delta) ==
  IF is_regression(e, threshold, min_delta)
  THEN [lists EXCEPT !.regressions = Append(@, e)]
  ELSE IF is_improvement(e, threshold, min_delta)
  THEN [lists EXCEPT !.improvements = Append(@, e)]
  ELSE [lists EXCEPT !.stable = Append(@, e)]

RECURSIVE compare_loop(_, _, _, _, _, _)
\* for name in common_names: ..., visiting the names in the given order
compare_loop(order, i, old, new, threshold, min_delta) ==
  IF i = 0
  THEN [regressions |-> <<>>, improvements |-> <<>>, stable |-> <<>>]
  ELSE classify(compare_loop(order, i - 1, old, new, threshold, min_delta),
                make_entry(order[i], old[order[i]], new[order[i]]),
                threshold, min_delta)

(* ---------------- new-only and removed-only functions ----------------- *)
SignificanceFloor == 200

significant_inclusive(cum) == cum >= SignificanceFloor

significant(cum) == cum > SignificanceFloor

only_names_not_subtracted(funcs, other, excl) == (DOMAIN funcs) \ excl

\* set(funcs.keys()) - set(other.keys()) - excluded
only_names(funcs, other, excl) == ((DOMAIN funcs) \ (DOMAIN other)) \ excl

RECURSIVE only_loop(_, _, _, _)
\* for name in new_only: ... new_only_filtered.append((name, flat, cum))
only_loop(order, i, funcs, exclude) ==
  IF i = 0 THEN <<>>
  ELSE LET rest == only_loop(order, i - 1, funcs, exclude)
           name == order[i]
           cum == funcs[name][2]
       IN IF should_exclude(name, exclude) THEN rest
          ELSE IF significant(cum)
               THEN Append(rest, <<name, funcs[name][1], cum>>)
               ELSE rest

only_filtered(order, funcs, exclude) ==
  LET l == only_loop(order, Len(order), funcs, exclude)
  IN list_sort(l, [i \in 1..Len(l) |-> l[i][3]], TRUE)

(* ---------------- the Report Renderer ---------------- *)
entry_row(e) ==
  <<shorten_func(e.name), format_ms(e.old_flat), format_ms(e.new_flat),
    format_change(e.old_flat, e.new_flat), format_ms(e.old_cum),
    format_ms(e.new_cum), format_change(e.old_cum, e.new_cum)>>

of_category(list, cat) == SelectSeq(list, LAMBDA e : e.category = cat)

\* the tables of one section: one per category that has entries
category_tables(list, top) ==
  LET table(cat) ==
        LET shown == Prefix(of_category(list, cat), top)
        IN [category |-> cat, rows |-> [i \in 1..Len(shown) |-> entry_row(shown[i])]]
      all == [c \in 1..Len(categories) |-> table(categories[c])]
  IN SelectSeq(all, LAMBDA t : of_category(list, t.category) # <<>>)

only_rows(filtered, top) ==
  LET shown == Prefix(filtered, top)
  IN [i \in 1..Len(shown) |->
        <<shorten_func(shown[i][1]), format_ms(shown[i][2]), format_ms(shown[i][3])>>]

render(common, excl, regs, imps, stab, new_f, old_f, top) ==
  [common_count |-> Cardinality(common),
   excluded_count |-> Cardinality(excl),
   regressions_found |-> Len(regs),
   improvements_found |-> Len(imps),
   stable_count |-> Len(stab),
   regression_tables |-> category_tables(regs, top),
   improvement_tables |-> category_tables(imps, top),
   new_rows |-> only_rows(new_f, top),
   removed_rows |-> only_rows(old_f, top)]

(* ---------------- state ---------------- *)
VARIABLES
  old_funcs,           \* baseline cost table: name -> <<flat_ms, cum_ms>>
  new_funcs,           \* candidate cost table
  args,                \* threshold, min_delta, exclude, top
  runs,                \* number of completed runs of main on these inputs
  common_names, excluded,
  regressions, improvements, stable,
  new_only_filtered, old_only_filtered,
  out,                 \* what the last run wrote
  prev                 \* the lists and the output of the run before the last

vars == <<old_funcs, new_funcs, args, runs, common_names, excluded,
          regressions, improvements, stable, new_only_filtered,
          old_only_filtered, out, prev>>

NoOutput == [common_count |-> 0, excluded_count |-> 0, regressions_found |-> 0,
             improvements_found |-> 0, stable_count |-> 0,
             regression_tables |-> <<>>, improvement_tables |-> <<>>,
             new_rows |-> <<>>, removed_rows |-> <<>>]

NoRun == [regressions |-> <<>>, improvements |-> <<>>, out |-> NoOutput]

\* the cost tables over a set of names with entries from a set of pairs
Tables(names, pairs) == UNION {[d -> pairs] : d \in SUBSET names}

NotRunYet ==
  /\ runs = 0
  /\ common_names = {}
  /\ excluded = {}
  /\ regressions = <<>>
  /\ improvements = <<>>
  /\ stable = <<>>
  /\ new_only_filtered = <<>>
  /\ old_only_filtered = <<>>
  /\ out = NoOutput
  /\ prev = NoRun

(* general inputs: several functions, costs around the 200 ms floor *)
CostPairs == {<<0, 150>>, <<100, 200>>, <<100, 250>>}

InitGeneral ==
  /\ old_funcs \in Tables(FuncNames, CostPairs)
  /\ new_funcs \in Tables(FuncNames, CostPairs)
  /\ args \in {[threshold |-> c[1], min_delta |-> c[2], exclude |-> x, top |-> n] :
                 c \in {<<30, 50>>, <<0, 0>>}, x \in ExcludeLists, n \in 1..MaxTop}

(* one matched function, every combination of a few cost values *)
OneCosts == {0, 10, 13, 100, 200}

InitOne ==
  /\ old_funcs \in [{game_main_a} -> OneCosts \X OneCosts]
  /\ new_funcs \in [{game_main_a} -> OneCosts \X OneCosts]
  /\ args \in [threshold : {-30, 0, 30}, min_delta : {-50, 0, 50},
               exclude : {<<>>}, top : {1}]

(* a table compared against itself *)
InitSelf ==
  /\ old_funcs \in Tables(FuncNames, CostPairs \cup {<<0, 0>>})
  /\ new_funcs = old_funcs
  /\ args \in [threshold : {-30, 0, 30}, min_delta : {-50, 0, 50},
               exclude : ExcludeLists, top : {1}]

(* functions present in one table only, costs on both sides of the floor *)
OnlyPairs == CostPairs \cup {<<50, 300>>}

InitOnly ==
  /\ old_funcs \in Tables(FuncNames, OnlyPairs)
  /\ new_funcs \in Tables(FuncNames, OnlyPairs)
  /\ (DOMAIN old_funcs) \cap (DOMAIN new_funcs) = {}
  /\ args \in {[threshold |-> c[1], min_delta |-> c[2], exclude |-> x, top |-> n] :
                 c \in {<<30, 50>>, <<0, 0>>}, x \in ExcludeLists, n \in 1..MaxTop}

Init ==
  /\ InitGeneral \/ InitOne \/ InitSelf \/ InitOnly
  /\ NotRunYet

(* ---------------- main ---------------- *)
main ==
  /\ runs < MaxRuns
  /\ LET raw == DOMAIN old_funcs \cap DOMAIN new_funcs
         excl == {name \in raw : should_exclude(name, args.exclude)}
         common == raw \ excl
         new_only == only_names(new_funcs, old_funcs, excl)
         old_only == only_names(old_funcs, new_funcs, excl)
     IN \E order \in Orders(common), new_order \in Orders(new_only),
           old_order \in Orders(old_only) :
          LET lists == compare_loop(order, Len(order), old_funcs, new_funcs,
                                    args.threshold, args.min_delta)
              regs == list_sort(lists.regressions,
                        [i \in 1..Len(lists.regressions) |-> lists.regressions[i].cum_delta],
                        TRUE)
              imps == list_sort(lists.improvements,
                        [i \in 1..Len(lists.improvements) |-> lists.improvements[i].cum_delta],
                        FALSE)
              new_f == only_filtered(new_order, new_funcs, args.exclude)
              old_f == only_filtered(old_order, old_funcs, args.exclude)
          IN /\ common_names' = common
             /\ excluded' = excl
             /\ regressions' = regs
             /\ improvements' = imps
             /\ stable' = lists.stable
             /\ new_only_filtered' = new_f
             /\ old_only_filtered' = old_f
             /\ out' = render(common, excl, regs, imps, lists.stable,
                              new_f, old_f, args.top)
  /\ prev' = [regressions |-> regressions, improvements |-> improvements, out |-> out]
  /\ runs' = runs + 1
  /\ UNCHANGED <<old_funcs, new_funcs, args>>

Next == main

Spec == Init /\ [][Next]_vars

(***************************************************************************)
(* Vocabulary of the properties, stated on the inputs and not through the  *)
(* operators of the model.                                                 *)
(***************************************************************************)
HasRun == runs >= 1

RawCommon == (DOMAIN old_funcs) \cap (DOMAIN new_funcs)

\* some exclude pattern matches somewhere in the name
Matched(name) ==
  \E k \in 1..Len(args.exclude) :
    \E i \in 1..(Len(name) + 1) :
      /\ i + Len(args.exclude[k]) - 1 <= Len(name)
      /\ \A j \in 1..Len(args.exclude[k]) :
           args.exclude[k][j] \in {".", name[i + j - 1]}

\* the matched, non-excluded functions
Compared == {name \in RawCommon : ~Matched(name)}

InList(list, name) == \E i \in 1..Len(list) : list[i].name = name

Occurrences(list, name) == Cardinality({i \in 1..Len(list) : list[i][1] = name})

OldFlat(name) == old_funcs[name][1]
OldCum(name) == old_funcs[name][2]
NewFlat(name) == new_funcs[name][1]
NewCum(name) == new_funcs[name][2]

\* percent change > t and < t, without dividing: old = 0 stands for 100 or 0
PctAbove(old, new, t) ==
  IF old > 0 THEN (new - old) * 100 > t * old
  ELSE IF new > 0 THEN 100 > t ELSE 0 > t

PctBelow(old, new, t) ==
  IF old > 0 THEN (new - old) * 100 < t * old
  ELSE IF new > 0 THEN 100 < t ELSE 0 < t

Exceeds(old, new) ==
  (IF new - old < 0 THEN old - new ELSE new - old) > args.min_delta

CumRegression(n) == PctAbove(OldCum(n), NewCum(n), args.threshold) /\ Exceeds(OldCum(n), NewCum(n))
FlatRegression(n) == PctAbove(OldFlat(n), NewFlat(n), args.threshold) /\ Exceeds(OldFlat(n), NewFlat(n))
CumImprovement(n) == PctBelow(OldCum(n), NewCum(n), -args.threshold) /\ Exceeds(OldCum(n), NewCum(n))
FlatImprovement(n) == PctBelow(OldFlat(n), NewFlat(n), -args.threshold) /\ Exceeds(OldFlat(n), NewFlat(n))

RegressionCondition(n) == CumRegression(n) \/ FlatRegression(n)
ImprovementCondition(n) == CumImprovement(n) \/ FlatImprovement(n)

DefaultPolicy == args.threshold = 30 /\ args.min_delta = 50

(* ---------------- C1 ---------------- *)
\* C1: after a run, every name that is in both tables and is not matched by
\* an exclude pattern occurs exactly once in regressions + improvements +
\* stable, these lists hold no other name, and the reported common count is
\* len(regressions) + len(improvements) + len(stable).
C1_ClassifiedExactlyOnce ==
  HasRun =>
    LET all == regressions \o improvements \o stable
    IN /\ \A n \in Compared : Cardinality({i \in 1..Len(all) : all[i].name = n}) = 1
       /\ \A i \in 1..Len(all) : all[i].name \in Compared
       /\ out.common_count = Len(regressions) + Len(improvements) + Len(stable)
       /\ out.common_count = Cardinality(Compared)

C1_Witness ==
  /\ HasRun
  /\ Len(regressions) = 1
  /\ Len(improvements) = 1
  /\ out.common_count = 2

(* ---------------- C2 ---------------- *)
C2_Rule ==
  \A n \in Compared :
    /\ InList(regressions, n) <=> RegressionCondition(n)
    /\ InList(improvements, n) <=> (~RegressionCondition(n) /\ ImprovementCondition(n))
    /\ InList(stable, n) <=> (~RegressionCondition(n) /\ ~ImprovementCondition(n))

C2_ExampleA ==
  \A n \in Compared :
    (DefaultPolicy /\ OldCum(n) = 100 /\ NewCum(n) = 200) => InList(regressions, n)

\* C2 as stated: the classification rule, and with threshold 30 and floor 50
\* inclusive (100 -> 200) is a regression and inclusive (200 -> 100) is an
\* improvement.
C2_Original ==
  HasRun =>
    /\ C2_Rule
    /\ C2_ExampleA
    /\ \A n \in Compared :
         (DefaultPolicy /\ OldCum(n) = 200 /\ NewCum(n) = 100) => InList(improvements, n)

\* C2 amended: the classification rule; with threshold 30 and floor 50
\* inclusive (100 -> 200) is a regression, and inclusive (200 -> 100) is an
\* improvement unless the exclusive cost meets the regression condition, in
\* which case it is a regression.
C2_Amended ==
  HasRun =>
    /\ C2_Rule
    /\ C2_ExampleA
    /\ \A n \in Compared :
         (DefaultPolicy /\ OldCum(n) = 200 /\ NewCum(n) = 100) =>
           IF FlatRegression(n) THEN InList(regressions, n)
           ELSE InList(improvements, n)

C2_Witness ==
  /\ HasRun
  /\ DefaultPolicy
  /\ \E n \in Compared :
       /\ OldCum(n) = 200 /\ NewCum(n) = 100
       /\ ~FlatRegression(n)
       /\ InList(improvements, n)

(* ---------------- C3 ---------------- *)
\* C3: a matched, non-excluded function whose absolute inclusive delta and
\* absolute exclusive delta are both at most min-delta is stable, whatever
\* the percent changes and the threshold; (10 -> 13) under 30 / 50 is stable.
C3_FloorSuppresses ==
  HasRun =>
    \A n \in Compared :
      (~Exceeds(OldCum(n), NewCum(n)) /\ ~Exceeds(OldFlat(n), NewFlat(n))) =>
        /\ InList(stable, n)
        /\ ~InList(regressions, n)
        /\ ~InList(improvements, n)

\* inclusive 10 -> 13 and exclusive 0 -> 13 (a percent change of 100)
C3_Witness ==
  /\ HasRun
  /\ DefaultPolicy
  /\ \E n \in Compared :
       /\ OldCum(n) = 10 /\ NewCum(n) = 13
       /\ OldFlat(n) = 0 /\ NewFlat(n) = 13
       /\ InList(stable, n)

(* ---------------- C4 ---------------- *)
\* C4: a name matched by an exclude pattern is in none of regressions,
\* improvements, stable, new-only, removed-only; the excluded count is the
\* number of matched names of the raw intersection, and common count +
\* excluded count is the size of the raw intersection.
C4_ExcludedNowhere ==
  HasRun =>
    /\ \A n \in (DOMAIN old_funcs) \cup (DOMAIN new_funcs) :
         Matched(n) =>
           /\ ~InList(regressions, n)
           /\ ~InList(improvements, n)
           /\ ~InList(stable, n)
           /\ Occurrences(new_only_filtered, n) = 0
           /\ Occurrences(old_only_filtered, n) = 0
    /\ out.excluded_count = Cardinality({n \in RawCommon : Matched(n)})
    /\ out.common_count + out.excluded_count = Cardinality(RawCommon)

C4_Witness ==
  /\ HasRun
  /\ out.excluded_count = 1
  /\ out.common_count = 1

(* ---------------- C5 ---------------- *)
\* C5: after the sort, regressions is non-increasing and improvements is
\* non-decreasing in inclusive delta, also with entries that were classified
\* through the exclusive cost only.
C5_Sorted ==
  HasRun =>
    /\ \A i, j \in 1..Len(regressions) :
         i < j => regressions[i].cum_delta >= regressions[j].cum_delta
    /\ \A i, j \in 1..Len(improvements) :
         i < j => improvements[i].cum_delta <= improvements[j].cum_delta

\* two regressions with different inclusive deltas, the second one a
\* regression through its exclusive cost only
C5_Witness ==
  /\ HasRun
  /\ Len(regressions) >= 2
  /\ regressions[1].cum_delta > regressions[2].cum_delta
  /\ ~CumRegression(regressions[2].name)

(* ---------------- C6 ---------------- *)
\* C6: a table compared against itself, with threshold >= 0 and floor >= 0,
\* gives no regression, no improvement, every matched non-excluded function
\* stable, and empty new-only and removed-only lists.
C6_SelfComparison ==
  (HasRun /\ old_funcs = new_funcs /\ args.threshold >= 0 /\ args.min_delta >= 0) =>
    /\ regressions = <<>>
    /\ improvements = <<>>
    /\ \A n \in Compared : InList(stable, n)
    /\ Len(stable) = Cardinality(Compared)
    /\ new_only_filtered = <<>>
    /\ old_only_filtered = <<>>

\* two functions compared, one of them above the 200 ms floor
C6_Witness ==
  /\ HasRun
  /\ old_funcs = new_funcs
  /\ args.threshold >= 0 /\ args.min_delta >= 0
  /\ Len(stable) = 2
  /\ \E n \in Compared : NewCum(n) > 200

(* ---------------- C7 ---------------- *)
OnlyListIs(list, funcs, other) ==
  LET expected == {n \in (DOMAIN funcs) \ (DOMAIN other) : ~Matched(n) /\ funcs[n][2] > 200}
  IN /\ \A n \in expected : Occurrences(list, n) = 1
     /\ \A i \in 1..Len(list) :
          /\ list[i][1] \in expected
          /\ list[i] = <<list[i][1], funcs[list[i][1]][1], funcs[list[i][1]][2]>>
     /\ \A i, j \in 1..Len(list) : i < j => list[i][3] >= list[j][3]
     /\ \A n \in (DOMAIN funcs) \ (DOMAIN other) :
          /\ (~Matched(n) /\ funcs[n][2] = 250) => Occurrences(list, n) = 1
          /\ funcs[n][2] \in {150, 200} => Occurrences(list, n) = 0

\* C7: new-only is exactly the names of the candidate table that are not in
\* the baseline table, are not matched by an exclude pattern and have an
\* inclusive cost > 200 (150 and 200 out, 250 in), sorted by inclusive cost
\* descending; removed-only likewise with the tables swapped; neither
\* depends on threshold or min-delta.
C7_OnlyLists ==
  HasRun =>
    /\ OnlyListIs(new_only_filtered, new_funcs, old_funcs)
    /\ OnlyListIs(old_only_filtered, old_funcs, new_funcs)

\* 300 ms before 250 ms in new-only
C7_Witness ==
  /\ HasRun
  /\ Len(new_only_filtered) = 2
  /\ new_only_filtered[1][3] = 300
  /\ new_only_filtered[2][3] = 250

(* ---------------- C8 ---------------- *)
PctIs(pct, old, new) ==
  /\ pct.den > 0
  /\ IF old = 0
     THEN pct = [num |-> (IF new > 0 THEN 100 ELSE 0), den |-> 1]
     ELSE pct.num * old = (new - old) * 100 * pct.den

\* the rows of a section against the entries they were made from
RowsShow(tables, list) ==
  \A t \in 1..Len(tables) :
    LET shown == SelectSeq(list, LAMBDA e : e.category = tables[t].category)
    IN /\ Len(tables[t].rows) <= Len(shown)
       /\ \A i \in 1..Len(tables[t].rows) :
            /\ tables[t].rows[i][4] = "+NEW"
                 <=> (shown[i].old_flat = 0 /\ shown[i].new_flat > 0)
            /\ tables[t].rows[i][7] = "+NEW"
                 <=> (shown[i].old_cum = 0 /\ shown[i].new_cum > 0)

\* C8: for every matched function and both metrics, the percent change is
\* 100 (new > 0) or 0 (new = 0) when old = 0, with no division by zero, and
\* (new - old) / old * 100 when old > 0; a change from old = 0 to new > 0 is
\* rendered as +NEW and nothing else is.
C8_ZeroBaseline ==
  HasRun =>
    /\ LET all == regressions \o improvements \o stable
       IN \A i \in 1..Len(all) :
            /\ PctIs(all[i].flat_pct, OldFlat(all[i].name), NewFlat(all[i].name))
            /\ PctIs(all[i].cum_pct, OldCum(all[i].name), NewCum(all[i].name))
    /\ RowsShow(out.regression_tables, regressions)
    /\ RowsShow(out.improvement_tables, improvements)

\* a regression that appeared from an exclusive cost of 0, shown as +NEW
C8_Witness ==
  /\ HasRun
  /\ Len(out.regression_tables) >= 1
  /\ out.regression_tables[1].rows[1][4] = "+NEW"
  /\ regressions[1].flat_pct = [num |-> 100, den |-> 1]

(* ---------------- C9 ---------------- *)
\* C9: two runs on the same tables and the same configuration give the same
\* ordered regressions and improvements and the same displayed rows.
C9_Deterministic ==
  runs >= 2 =>
    /\ regressions = prev.regressions
    /\ improvements = prev.improvements
    /\ out.regression_tables = prev.out.regression_tables
    /\ out.improvement_tables = prev.out.improvement_tables

(* ---------------- C10 ---------------- *)
\* C10 as stated: the regression condition and the improvement condition
\* never hold together for a matched, non-excluded function.
C10_Original ==
  HasRun =>
    \A n \in Compared : ~(RegressionCondition(n) /\ ImprovementCondition(n))

\* C10 amended: when both conditions hold the function is a regression (the
\* priority of the regression check decides); with a non-negative threshold
\* they never both hold through the same metric.
C10_Amended ==
  HasRun =>
    \A n \in Compared :
      /\ (RegressionCondition(n) /\ ImprovementCondition(n)) =>
           (InList(regressions, n) /\ ~InList(improvements, n))
      /\ args.threshold >= 0 =>
           /\ ~(CumRegression(n) /\ CumImprovement(n))
           /\ ~(FlatRegression(n) /\ FlatImprovement(n))

\* exclusive cost up, inclusive cost down, under a non-negative threshold
C10_Witness ==
  /\ HasRun
  /\ args.threshold >= 0
  /\ \E n \in Compared :
       /\ FlatRegression(n)
       /\ CumImprovement(n)
       /\ InList(regressions, n)

====
